---- MODULE Spec2Model ----
(***************************************************************************)
(* Model of platform/msm_shared/sdhci.c: the SDHCI host controller driver  *)
(* of the LK bootloader.  The driver is single threaded; every register    *)
(* read of a status the hardware owns is an input drawn at the read.       *)
(*                                                                         *)
(* Register contents are modelled by their fields: a status register is    *)
(* the set of the bits that are set in it, the clock control register is   *)
(* the record of its fields, a 32-bit response word is the tuple of its    *)
(* four bytes, most significant first.                                     *)
(***************************************************************************)
EXTENDS Integers, Sequences, FiniteSets, TLC

(***************************************************************************)
(* Bounds of the model.                                                    *)
(***************************************************************************)
\* retry count of the command complete poll (SDHCI_MAX_CMD_RETRY, scaled)
SDHCI_MAX_CMD_RETRY == 3
\* retry count of the transfer complete poll (SDHCI_MAX_TRANS_RETRY, scaled)
SDHCI_MAX_TRANS_RETRY == 2
\* bytes one ADMA descriptor covers (SDHCI_ADMA_DESC_LINE_SZ, scaled)
SDHCI_ADMA_DESC_LINE_SZ == 2
\* bytes of one block (SDHCI_MMC_BLK_SZ, scaled)
SDHCI_MMC_BLK_SZ == 1
\* largest block count of a command
MaxBlocks == 5
\* descriptor tables that may be live before no further data command is issued
MaxLive == 2

(***************************************************************************)
(* Program constants.                                                      *)
(***************************************************************************)
\* retries of the present state poll, sdhci_send_command
LINE_RETRY == 10
\* exclusive upper end of the divisor scan
SDHCI_CLK_MAX_DIV == 2046
SDHCI_CLK_100MHZ == 100000000
\* the divider bits held in the low field of the clock control register
SDHCI_SDCLK_FREQ_MASK == 255
\* the divider bits held in the upper field of the clock control register
SDHC_SDCLK_UP_BIT_MASK == 768
\* position of the low divider field, and the shift that brings bits 8-9 down
SDHCI_SDCLK_FREQ_SEL == 8
\* shifts of the 136-bit response reconstruction
SDHCI_RESP_LSHIFT == 8
SDHCI_RESP_RSHIFT == 24
\* transfer directions of a command
SDHCI_MMC_WRITE == 0
SDHCI_MMC_READ == 1
\* the read flag of the transfer mode register, BIT(4)
SDHCI_READ_MODE == 16
\* command index of the switch command
SDHCI_SWITCH_CMD == 6
\* bus width enum of the caller
DATA_BUS_WIDTH_1BIT == 0
DATA_BUS_WIDTH_4BIT == 1
DATA_BUS_WIDTH_8BIT == 2

\* bus width patterns of host control register 1, as sets of its bits
SDHCI_BUS_WITDH_1BIT == {}
SDHCI_BUS_WITDH_4BIT == {"WIDTH_4BIT"}
SDHCI_BUS_WITDH_8BIT == {"WIDTH_8BIT"}
SDHCI_ADMA_32BIT == {"ADMA_32BIT"}

\* response type tags of a command; "BAD" stands for every unmapped tag
RespTypes == {"NONE", "R1", "R1B", "R2", "R3", "R6", "R7", "BAD"}

\* descriptor attributes
SDHCI_ADMA_TRANS_VALID == {"VALID"}
SDHCI_ADMA_TRANS_DATA == {"DATA"}
SDHCI_ADMA_TRANS_END == {"END"}

NULL == <<>>
NoRet == -1

VARIABLES
    pc,           \* position of the driver: "idle", a wait inside a call, "panic"
    call,         \* the call in progress or last returned: [op, arg]
    ret,          \* return value of the last call, NoRet while one runs
    writes,       \* register writes of the call, in order: <<register, value>>
    host,         \* struct sdhci_host: capability record and cur_clk_rate
    regs,         \* controller registers the driver reads back
    cmd,          \* struct mmc_command of the call
    retry,        \* the retry counter of the running poll loop
    path,         \* how sdhci_cmd_complete reached its err label
    sg_list,      \* the descriptor table of the call, NULL if none
    live_tables,  \* descriptor tables allocated and not freed
    hw,           \* what the hardware showed at the final status reads
    cache_inv,    \* arch_invalidate_cache_range calls of the call
    freq,         \* local freq of sdhci_clk_supply
    event,        \* sdhc_event, the event of sdhci_init
    irq           \* the power control interrupt and the run of its handler

vars == <<pc, call, ret, writes, host, regs, cmd, retry, path, sg_list,
          live_tables, hw, cache_inv, freq, event, irq>>

(***************************************************************************)
(* 32-bit words as four bytes, most significant first.                     *)
(***************************************************************************)
RECURSIVE BitOr(_, _)
BitOr(a, b) ==
    IF a = 0 THEN b
    ELSE IF b = 0 THEN a
    ELSE (IF a % 2 = 1 \/ b % 2 = 1 THEN 1 ELSE 0) + 2 * BitOr(a \div 2, b \div 2)

RECURSIVE BitAnd(_, _)
BitAnd(a, b) ==
    IF a = 0 \/ b = 0 THEN 0
    ELSE (IF a % 2 = 1 /\ b % 2 = 1 THEN 1 ELSE 0) + 2 * BitAnd(a \div 2, b \div 2)

\* w << n, n a multiple of 8, truncated to 32 bits
Shl32(w, n) == [i \in 1..4 |-> IF i + (n \div 8) <= 4 THEN w[i + (n \div 8)] ELSE 0]
\* w >> n, n a multiple of 8
Shr32(w, n) == [i \in 1..4 |-> IF i - (n \div 8) >= 1 THEN w[i - (n \div 8)] ELSE 0]
Or32(v, w) == [i \in 1..4 |-> BitOr(v[i], w[i])]

\* the caller's response buffer before the call
StaleWord == <<170, 170, 170, 170>>
StaleResp == [i \in 0..3 |-> StaleWord]

\* contents of the four response registers the hardware may present
RespRegValues ==
    { [i \in 0..3 |-> <<18 + i, 52, 86, 120 + i>>],
      [i \in 0..3 |-> IF i % 2 = 0 THEN <<255, 0, 128, 1>> ELSE <<1, 255, 255, 254>>],
      [i \in 0..3 |-> <<128 + i, 0, 0, 0>>] }

(***************************************************************************)
(* sdhci_cmd_err_status                                                    *)
(***************************************************************************)
\* the bits of the error interrupt status register: ten have a mask in the
\* driver, "OTHER" is any of the remaining bits of the 16-bit register
ErrKind(err) ==
    IF "CMD_TIMEOUT" \in err THEN "CMD_TIMEOUT"
    ELSE IF "CMD_CRC" \in err THEN "CMD_CRC"
    ELSE IF "CMD_END_BIT" \in err THEN "CMD_END_BIT"
    ELSE IF "CMD_IDX" \in err THEN "CMD_IDX"
    ELSE IF "DAT_TIMEOUT" \in err THEN "DAT_TIMEOUT"
    ELSE IF "DAT_CRC" \in err THEN "DAT_CRC"
    ELSE IF "DAT_END_BIT" \in err THEN "DAT_END_BIT"
    ELSE IF "CUR_LIM" \in err THEN "CUR_LIM"
    ELSE IF "AUTO_CMD12" \in err THEN "AUTO_CMD12"
    ELSE IF "ADMA" \in err THEN "ADMA"
    ELSE "NONE"

sdhci_cmd_err_status(err) == IF ErrKind(err) # "NONE" THEN 1 ELSE 0

\* values of the error interrupt status register the hardware may show
ErrStsValues ==
    { {}, {"CMD_CRC"}, {"DAT_TIMEOUT", "ADMA"}, {"OTHER"} }

(***************************************************************************)
(* sdhci_prep_desc_table: the table is the sequence of its entries, addr   *)
(* is the offset of the entry's data from the start of the buffer.         *)
(***************************************************************************)
DescEntry(addr, len, att) == [addr |-> addr, len |-> len, tran_att |-> att]

\* the for loop of the multi-entry branch: entries 0 .. sg_len-2, then the last
RECURSIVE FillDescTable(_, _, _, _)
FillDescTable(i, sg_len, data, len) ==
    IF i < sg_len - 1
    THEN <<DescEntry(data, SDHCI_ADMA_DESC_LINE_SZ,
                     SDHCI_ADMA_TRANS_VALID \cup SDHCI_ADMA_TRANS_DATA)>>
         \o FillDescTable(i + 1, sg_len, data + SDHCI_ADMA_DESC_LINE_SZ,
                          len - SDHCI_ADMA_DESC_LINE_SZ)
    ELSE <<DescEntry(data, len,
                     SDHCI_ADMA_TRANS_VALID \cup SDHCI_ADMA_TRANS_DATA
                         \cup SDHCI_ADMA_TRANS_END)>>

\* the number of entries of the multi-entry branch
DescCountNoRound(len) == len \div SDHCI_ADMA_DESC_LINE_SZ

DescCount(len) ==
    LET sg_len == len \div SDHCI_ADMA_DESC_LINE_SZ
        remain == len - (sg_len * SDHCI_ADMA_DESC_LINE_SZ)
    IN  IF remain # 0 THEN sg_len + 1 ELSE sg_len

sdhci_prep_desc_table(len) ==
    IF len <= SDHCI_ADMA_DESC_LINE_SZ
    THEN <<DescEntry(0, len,
                     SDHCI_ADMA_TRANS_VALID \cup SDHCI_ADMA_TRANS_DATA
                         \cup SDHCI_ADMA_TRANS_END)>>
    ELSE FillDescTable(0, DescCount(len), 0, len)

(***************************************************************************)
(* Response copy of sdhci_cmd_complete.                                    *)
(***************************************************************************)
\* the R2 loop with the previous word taken from the same register
RespR2SameWord(R) ==
    [i \in 0..3 |-> IF i # 0
                    THEN Or32(Shl32(R[i], SDHCI_RESP_LSHIFT),
                              Shr32(R[i], SDHCI_RESP_RSHIFT))
                    ELSE Shl32(R[i], SDHCI_RESP_LSHIFT)]

RespR2(R) ==
    [i \in 0..3 |-> IF i # 0
                    THEN Or32(Shl32(R[i], SDHCI_RESP_LSHIFT),
                              Shr32(R[i - 1], SDHCI_RESP_RSHIFT))
                    ELSE Shl32(R[i], SDHCI_RESP_LSHIFT)]

CopyResponse(c, R) ==
    IF c.resp_type = "R2" THEN RespR2(R) ELSE [c.resp EXCEPT ![0] = R[0]]

(***************************************************************************)
(* Commands a caller may pass to sdhci_send_command.                       *)
(***************************************************************************)
DataPtrs == {"NULL", "ALIGNED", "UNALIGNED"}

Command(idx, rt, dp, nb, ptr, tm) ==
    [cmd_index |-> idx, resp_type |-> rt, data_present |-> dp,
     num_blocks |-> nb, data_ptr |-> ptr, trans_mode |-> tm, resp |-> StaleResp]

Commands ==
    { Command(idx, rt, FALSE, 0, "NULL", SDHCI_MMC_WRITE) :
          idx \in {SDHCI_SWITCH_CMD, 13}, rt \in RespTypes }
    \cup
    { Command(18, rt, TRUE, nb, ptr, tm) :
          rt \in {"R1", "R2", "BAD"}, nb \in 0..MaxBlocks, ptr \in DataPtrs,
          tm \in {SDHCI_MMC_WRITE, SDHCI_MMC_READ, SDHCI_READ_MODE} }

NoCommand == Command(0, "NONE", FALSE, 0, "NULL", SDHCI_MMC_WRITE)
NoHw == [nrml_err |-> FALSE, err |-> {}, err_read |-> FALSE, resp_regs |-> StaleResp]
NoCall == [op |-> "none", arg |-> 0]

Log(reg, val) == <<reg, val>>
Wrote(reg) == \E k \in 1..Len(writes) : writes[k][1] = reg

(***************************************************************************)
(* Initial states: the host after sdhci_init.                              *)
(***************************************************************************)
\* base clock rates a capability register may report, in Hz
BaseClkRates == {200000000, 255000000, 50000000}
\* cur_clk_rate is not assigned by sdhci_init: the caller's struct decides
UnsetClkRates == {0, 400000}

ClkCtrlReset ==
    [freq_sel |-> 0, up_bits |-> 0, int_clk_en |-> FALSE, clk_en |-> FALSE,
     stable |-> FALSE]

\* sdhci_init has returned: its event is gone with its frame, the handler
\* stays registered
NoEvent == [signalled |-> FALSE]
HandlerInstalled == [registered |-> TRUE, hpc |-> "none", runs |-> 0, signals |-> 0]

InitCommon ==
    /\ pc = "idle"
    /\ event = NoEvent
    /\ irq = HandlerInstalled
    /\ call = NoCall
    /\ ret = NoRet
    /\ writes = <<>>
    /\ regs = [CLK_CTRL |-> ClkCtrlReset, HOST_CTRL1 |-> SDHCI_ADMA_32BIT,
               HOST_CTRL2 |-> {}]
    /\ cmd = NoCommand
    /\ retry = 0
    /\ path = "none"
    /\ sg_list = NULL
    /\ live_tables = 0
    /\ hw = NoHw
    /\ cache_inv = 0
    /\ freq = 0

InitCmd ==
    /\ InitCommon
    /\ host = [base_clk_rate |-> 200000000, cur_clk_rate |-> 0,
               sdr50_support |-> TRUE]

(***************************************************************************)
(* sdhci_send_command                                                      *)
(***************************************************************************)
\* entry: the two assertions, then the present state poll starts
SendCommand(c) ==
    /\ pc = "idle"
    /\ c.data_present => live_tables < MaxLive
    /\ call' = [op |-> "send_command", arg |-> 0]
    /\ cmd' = c
    /\ ret' = NoRet
    /\ writes' = <<>>
    /\ retry' = 0
    /\ path' = "none"
    /\ sg_list' = NULL
    /\ hw' = NoHw
    /\ cache_inv' = 0
    /\ pc' = IF c.data_present /\ c.data_ptr = "NULL" THEN "panic"
             ELSE IF c.trans_mode = SDHCI_READ_MODE /\ c.data_ptr = "UNALIGNED"
             THEN "panic"
             ELSE "arm"
    /\ UNCHANGED <<event, irq, host, regs, live_tables, freq>>

\* the response length encoding of the switch statement, "INVALID" for default
RespLen(rt) ==
    CASE rt \in {"R1", "R3", "R6", "R7"} -> "RESP_48"
      [] rt = "R2" -> "RESP_136"
      [] rt = "R1B" -> "RESP_48_BUSY"
      [] rt = "NONE" -> "RESP_NONE"
      [] OTHER -> "INVALID"

\* register writes of sdhci_adma_transfer
AdmaWrites(c) ==
    <<Log("BLKSZ", SDHCI_MMC_BLK_SZ)>>
    \o (IF c.num_blocks > 1 THEN <<Log("ARG2", c.num_blocks)>> ELSE <<>>)
    \o <<Log("BLK_CNT", c.num_blocks),
         Log("ADM_ADDR", "sg_list"),
         Log("TRANS_MODE",
             (IF c.num_blocks > 1 THEN {"MULTI", "AUTO_CMD23_EN", "BLK_CNT_EN"} ELSE {})
             \cup (IF c.trans_mode = SDHCI_MMC_READ THEN {"READ_MODE"} ELSE {})
             \cup {"DMA_EN"})>>

\* the retry test with the limit taken one poll later
LinesRetryExhaustedLate(r) == r = LINE_RETRY + 1

\* the test made on the counter after a poll that found the lines in use
LinesRetryExhausted(r) == r = LINE_RETRY

\* one poll of the present state register; once the lines are free the
\* command is dispatched
PollLines ==
    /\ pc = "arm"
    /\ \E busy \in BOOLEAN :
         IF busy
         THEN /\ retry' = retry + 1
              /\ IF LinesRetryExhausted(retry + 1)
                 THEN pc' = "idle" /\ ret' = 1
                 ELSE pc' = "arm" /\ ret' = ret
              /\ UNCHANGED <<writes, sg_list, live_tables>>
         ELSE IF RespLen(cmd.resp_type) = "INVALID"
         THEN /\ pc' = "idle"
              /\ ret' = 1
              /\ UNCHANGED <<writes, sg_list, live_tables, retry>>
         ELSE IF cmd.data_present
         THEN \E alloc_ok \in BOOLEAN :
                IF alloc_ok
                THEN /\ sg_list' = sdhci_prep_desc_table(cmd.num_blocks * SDHCI_MMC_BLK_SZ)
                     /\ live_tables' = live_tables + 1
                     /\ writes' = <<Log("TIMEOUT", "CMD_TIMEOUT")>> \o AdmaWrites(cmd)
                                  \o <<Log("ARGUMENT", 0), Log("CMD", cmd.cmd_index)>>
                     /\ retry' = 0
                     /\ pc' = "cc_wait"
                     /\ ret' = ret
                ELSE /\ writes' = <<Log("TIMEOUT", "CMD_TIMEOUT")>>
                     /\ pc' = "panic"
                     /\ UNCHANGED <<sg_list, live_tables, retry, ret>>
         ELSE /\ writes' = <<Log("TIMEOUT", "CMD_TIMEOUT"), Log("ARGUMENT", 0),
                             Log("CMD", cmd.cmd_index)>>
              /\ retry' = 0
              /\ pc' = "cc_wait"
              /\ UNCHANGED <<sg_list, live_tables, ret>>
    /\ UNCHANGED <<event, irq, call, host, regs, cmd, path, hw, cache_inv, freq>>

(***************************************************************************)
(* sdhci_cmd_complete                                                      *)
(***************************************************************************)
\* one poll of the command complete bit
PollCmdComplete ==
    /\ pc = "cc_wait"
    /\ \E cc \in BOOLEAN, R \in RespRegValues :
         IF cc
         THEN /\ writes' = Append(writes, Log("NRML_INT_STS", "CMD_COMPLETE"))
              /\ cmd' = [cmd EXCEPT !.resp = CopyResponse(cmd, R)]
              /\ hw' = [hw EXCEPT !.resp_regs = R]
              /\ retry' = 0
              /\ pc' = IF cmd.data_present \/ cmd.cmd_index = SDHCI_SWITCH_CMD
                       THEN "tc_wait" ELSE "err"
              /\ path' = IF cmd.data_present \/ cmd.cmd_index = SDHCI_SWITCH_CMD
                         THEN path ELSE "complete"
         ELSE /\ retry' = retry + 1
              /\ IF retry + 1 = SDHCI_MAX_CMD_RETRY
                 THEN pc' = "err" /\ path' = "cc_timeout"
                 ELSE pc' = "cc_wait" /\ path' = path
              /\ UNCHANGED <<writes, cmd, hw>>
    /\ UNCHANGED <<event, irq, call, ret, host, regs, sg_list, live_tables, cache_inv, freq>>

\* one poll of the transfer complete bit
PollTransComplete ==
    /\ pc = "tc_wait"
    /\ \E tc \in BOOLEAN :
         IF tc
         THEN /\ writes' = Append(writes, Log("NRML_INT_STS", "TRANS_COMPLETE"))
              /\ pc' = "err"
              /\ path' = "complete"
              /\ UNCHANGED retry
         ELSE /\ retry' = retry + 1
              /\ IF retry + 1 = SDHCI_MAX_TRANS_RETRY
                 THEN pc' = "err" /\ path' = "tc_timeout"
                 ELSE pc' = "tc_wait" /\ path' = path
              /\ UNCHANGED writes
    /\ UNCHANGED <<event, irq, call, ret, host, regs, cmd, sg_list, live_tables, hw, cache_inv, freq>>

\* return value of sdhci_cmd_complete from its err label: int_err is the error
\* bit of the normal interrupt status, err the error interrupt status
CmdCompleteRet(int_err, err) ==
    IF int_err /\ sdhci_cmd_err_status(err) = 1 THEN 1 ELSE 0

\* the err label of sdhci_cmd_complete and the rest of sdhci_send_command
\* the invalidation test made against the flag of the transfer mode register
InvalidatesCacheOnFlag(c) == c.trans_mode = SDHCI_READ_MODE

\* the test that decides the cache invalidation after the command completed
InvalidatesCache(c) == c.trans_mode = SDHCI_MMC_READ

ErrCheck ==
    /\ pc = "err"
    /\ \E int_err \in BOOLEAN, err \in ErrStsValues :
         /\ hw' = [hw EXCEPT !.nrml_err = int_err, !.err = err, !.err_read = int_err]
         /\ IF CmdCompleteRet(int_err, err) = 1
            THEN /\ ret' = 1
                 /\ UNCHANGED <<writes, cache_inv, live_tables>>
            ELSE /\ ret' = 0
                 /\ writes' = IF cmd.data_present
                              THEN Append(writes, Log("RESET", {"SOFT_RESET_CMD", "SOFT_RESET_DATA"}))
                              ELSE writes
                 /\ cache_inv' = IF InvalidatesCache(cmd)
                                 THEN cache_inv + 1 ELSE cache_inv
                 /\ live_tables' = IF sg_list # NULL
                                   THEN live_tables - 1 ELSE live_tables
    /\ pc' = "idle"
    /\ UNCHANGED <<event, irq, call, host, regs, cmd, retry, path, sg_list, freq>>

NextCmd ==
    \/ \E c \in Commands : SendCommand(c)
    \/ PollLines
    \/ PollCmdComplete
    \/ PollTransComplete
    \/ ErrCheck

SpecCmd == InitCmd /\ [][NextCmd]_vars

(***************************************************************************)
(* Properties of the command engine, under SpecCmd.                        *)
(***************************************************************************)
WroteValue(reg, val) == \E k \in 1..Len(writes) : writes[k] = <<reg, val>>
Returned == pc = "idle" /\ call.op = "send_command"
Dispatched == Wrote("CMD")
NeedsTransferWait == cmd.data_present \/ cmd.cmd_index = SDHCI_SWITCH_CMD

\* C1: a command whose Command-Complete bit was not seen within the retry
\* count returns failure whatever the error interrupt status is, and the
\* Command-Complete bit is not written back.
C1_CmdTimeoutFails ==
    (Returned /\ path = "cc_timeout")
        => (ret = 1 /\ ~WroteValue("NRML_INT_STS", "CMD_COMPLETE"))

\* C2: every dispatched data command has the command and data lines soft
\* reset before sdhci_send_command returns, on every outcome.
C2_ResetOnEveryOutcome ==
    (Returned /\ cmd.data_present /\ Dispatched) => Wrote("RESET")

\* C3: no descriptor table is left allocated once a call has returned.
C3_NoLiveTableWhenIdle ==
    pc = "idle" => live_tables = 0

\* C4: a command whose Transfer-Complete bit was not seen within the retry
\* count returns failure whatever the error interrupt status is, and the
\* Transfer-Complete wait is entered only with data or for the switch command.
C4_TransTimeoutFails ==
    /\ (Returned /\ path = "tc_timeout") => ret = 1
    /\ pc = "tc_wait" => NeedsTransferWait

\* C5: on every return path of command completion the error interrupt
\* status is read, and if any bit of it is set the command returns failure.
C5_ErrStatusAlwaysFails ==
    (Returned /\ path # "none")
        => (hw.err_read /\ (hw.err # {} => ret = 1))

RECURSIVE SumLen(_, _)
SumLen(t, k) == IF k = 0 THEN 0 ELSE t[k].len + SumLen(t, k - 1)

TransferLen == cmd.num_blocks * SDHCI_MMC_BLK_SZ

\* C6: the descriptor chain built for L bytes has one entry if L fits in one
\* descriptor and ceil(L / maxSpan) entries otherwise; the lengths add up to
\* L, none exceeds maxSpan, all but the last are maxSpan, every entry is
\* Valid|Data and only the last one carries End.
C6_DescChainShape ==
    sg_list # NULL =>
        LET n == Len(sg_list)
            L == TransferLen
        IN  /\ n = IF L <= SDHCI_ADMA_DESC_LINE_SZ THEN 1
                   ELSE (L + SDHCI_ADMA_DESC_LINE_SZ - 1) \div SDHCI_ADMA_DESC_LINE_SZ
            /\ SumLen(sg_list, n) = L
            /\ \A k \in 1..n :
                 /\ sg_list[k].len <= SDHCI_ADMA_DESC_LINE_SZ
                 /\ k < n => sg_list[k].len = SDHCI_ADMA_DESC_LINE_SZ
                 /\ {"VALID", "DATA"} \subseteq sg_list[k].tran_att
                 /\ ("END" \in sg_list[k].tran_att) <=> (k = n)

\* a chain of several entries whose last entry holds a remainder
C6_Witness ==
    /\ sg_list # NULL
    /\ Len(sg_list) >= 3
    /\ sg_list[Len(sg_list)].len < SDHCI_ADMA_DESC_LINE_SZ

CommandCompleteSeen == WroteValue("NRML_INT_STS", "CMD_COMPLETE")

\* C9: for an R2 response every word i of the buffer has the low three bytes
\* of register Ri in its upper three bytes; its low byte is the top byte of
\* R(i-1) for i = 1..3 and zero for word 0.  For any other response type
\* word 0 is R0 and words 1..3 keep what the caller had there.
C9_ResponseLayout ==
    CommandCompleteSeen =>
        IF cmd.resp_type = "R2"
        THEN \A i \in 0..3 :
               /\ \A b \in 1..3 : cmd.resp[i][b] = hw.resp_regs[i][b + 1]
               /\ cmd.resp[i][4] = IF i = 0 THEN 0 ELSE hw.resp_regs[i - 1][1]
        ELSE /\ cmd.resp[0] = hw.resp_regs[0]
             /\ \A i \in 1..3 : cmd.resp[i] = StaleWord

\* an R2 response whose words 1..3 received a non-zero byte from below
C9_Witness ==
    /\ CommandCompleteSeen
    /\ cmd.resp_type = "R2"
    /\ \A i \in 1..3 : cmd.resp[i][4] # 0 /\ cmd.resp[i][4] # hw.resp_regs[i][1]

\* the transfer complete bit was seen set and acknowledged
TransferCompleteSeen == WroteValue("NRML_INT_STS", "TRANS_COMPLETE")

C14_LinePollBound ==
    [][pc = "arm" =>
         \/ /\ pc' = "arm"
            /\ retry' = retry + 1
            /\ retry' < 10
            /\ writes' = <<>>
            /\ sg_list' = NULL
            /\ live_tables' = live_tables
         \/ /\ retry = 9
            /\ retry' = 10
            /\ pc' = "idle"
            /\ ret' = 1
            /\ writes' = <<>>
            /\ sg_list' = NULL
            /\ live_tables' = live_tables
         \/ /\ retry < 10
            /\ pc' # "arm"
            /\ IF RespLen(cmd.resp_type) = "INVALID"
               THEN pc' = "idle" /\ ret' = 1 /\ retry' = retry /\ writes' = <<>>
               ELSE writes'[1] = <<"TIMEOUT", "CMD_TIMEOUT">>]_vars

\* a data command given up after 10 polls
C14_Witness ==
    /\ Returned
    /\ ret = 1
    /\ retry = 10
    /\ cmd.data_present
    /\ RespLen(cmd.resp_type) # "INVALID"
    /\ writes = <<>>
    /\ sg_list = NULL

\* C17 as stated: a read transfer into a buffer that is not cache line
\* aligned, and a data command with a null buffer, stop at the assertion
\* before a register is polled or written.
C17_AssertBeforeRegisters ==
    (/\ call.op = "send_command"
     /\ \/ cmd.trans_mode = SDHCI_MMC_READ /\ cmd.data_ptr = "UNALIGNED"
        \/ cmd.data_present /\ cmd.data_ptr = "NULL")
        => (pc = "panic" /\ writes = <<>> /\ retry = 0)

(***************************************************************************)
(* sdhci_clk_supply                                                        *)
(***************************************************************************)
InitCfg ==
    /\ InitCommon
    /\ host \in [base_clk_rate : BaseClkRates, cur_clk_rate : UnsetClkRates,
                 sdr50_support : BOOLEAN]

\* clock rates a caller asks for, in Hz
ClkTargets == {100000, 400000, 25000000, 150000000, 50000000, 200000000,
               255000000, 300000000}

\* The for loop over the even divisors, its k-th iteration having div = 2k.
\* The iterations are evaluated in ascending order; the range is halved only
\* to keep the evaluation shallow.
LastIteration == (SDHCI_CLK_MAX_DIV - 1) \div 2

\* the first of the iterations lo..hi left by break, 0 if none is
RECURSIVE FirstBreak(_, _, _, _)
FirstBreak(lo, hi, base, clk) ==
    IF lo > hi THEN 0
    ELSE IF lo = hi THEN (IF base \div (2 * lo) <= clk THEN lo ELSE 0)
    ELSE LET mid == (lo + hi) \div 2
             first == FirstBreak(lo, mid, base, clk)
         IN  IF first # 0 THEN first ELSE FirstBreak(mid + 1, hi, base, clk)

\* the same with the comparison freq < clk
RECURSIVE FirstBreakStrict(_, _, _, _)
FirstBreakStrict(lo, hi, base, clk) ==
    IF lo > hi THEN 0
    ELSE IF lo = hi THEN (IF base \div (2 * lo) < clk THEN lo ELSE 0)
    ELSE LET mid == (lo + hi) \div 2
             first == FirstBreakStrict(lo, mid, base, clk)
         IN  IF first # 0 THEN first ELSE FirstBreakStrict(mid + 1, hi, base, clk)

\* div and freq when the loop is left: by break at iteration k, or with the
\* loop condition false, freq then being that of the last iteration
LoopExit(k, base) ==
    IF k # 0
    THEN [div |-> 2 * k, freq |-> base \div (2 * k)]
    ELSE [div |-> 2 * (LastIteration + 1),
          freq |-> IF LastIteration >= 1 THEN base \div (2 * LastIteration) ELSE 0]

ScanDivStrict(base, clk) == LoopExit(FirstBreakStrict(1, LastIteration, base, clk), base)

ScanDiv(base, clk) == LoopExit(FirstBreak(1, LastIteration, base, clk), base)

\* div and freq at the clk_ctrl label with the bypass taken as divider 1
ClkDivBypassOne(base, clk) ==
    IF clk = base
    THEN [div |-> 1, freq |-> 0]
    ELSE LET s == ScanDiv(base, clk)
         IN  [div |-> s.div \div 2, freq |-> s.freq]

\* div and freq at the clk_ctrl label
ClkDiv(base, clk) ==
    IF clk = base
    THEN [div |-> 0, freq |-> 0]
    ELSE LET s == ScanDiv(base, clk)
         IN  [div |-> s.div \div 2, freq |-> s.freq]

RECURSIVE Pow2(_)
Pow2(n) == IF n = 0 THEN 1 ELSE 2 * Pow2(n - 1)

\* clk_val as first written: the two divider fields and the internal clock enable
ClkVal(div) ==
    [freq_sel |-> BitAnd(div, SDHCI_SDCLK_FREQ_MASK),
     up_bits |-> BitAnd(div, SDHC_SDCLK_UP_BIT_MASK) \div Pow2(SDHCI_SDCLK_FREQ_SEL),
     int_clk_en |-> TRUE, clk_en |-> FALSE, stable |-> FALSE]

\* sdhci_clk_supply from its entry up to the first read of the clock stable
\* bit, called with the registers r and the writes w made so far
ClkSupplyEntry(clk, r, w) ==
    IF clk > host.base_clk_rate
    THEN /\ ret' = 1
         /\ writes' = w
         /\ regs' = r
         /\ pc' = "idle"
         /\ UNCHANGED freq
    ELSE \E d \in {ClkDiv(host.base_clk_rate, clk)} :
             /\ regs' = [r EXCEPT !.CLK_CTRL = ClkVal(d.div)]
             /\ writes' = Append(w, Log("CLK_CTRL", ClkVal(d.div)))
             /\ freq' = d.freq
             /\ ret' = NoRet
             /\ pc' = "clk_wait"

ClkSupply(clk) ==
    /\ pc = "idle"
    /\ call' = [op |-> "clk_supply", arg |-> clk]
    /\ ClkSupplyEntry(clk, regs, <<>>)
    /\ UNCHANGED <<event, irq, host, cmd, retry, path, sg_list, live_tables, hw, cache_inv>>

\* the functions that end in a call of sdhci_clk_supply
ClkCallers == {"clk_supply", "set_sdr_mode", "set_ddr_mode"}

\* the controller reports its internal clock stable
HwClkStable ==
    /\ regs.CLK_CTRL.int_clk_en
    /\ ~regs.CLK_CTRL.stable
    /\ regs' = [regs EXCEPT !.CLK_CTRL.stable = TRUE]
    /\ UNCHANGED <<event, irq, pc, call, ret, writes, host, cmd, retry, path, sg_list,
                   live_tables, hw, cache_inv, freq>>

\* the stable bit was read set: enable the clock and record the rate
ClkSupplyDone ==
    /\ pc = "clk_wait"
    /\ call.op \in ClkCallers
    /\ regs.CLK_CTRL.stable
    /\ LET clk_val == [regs.CLK_CTRL EXCEPT !.clk_en = TRUE]
       IN  /\ regs' = [regs EXCEPT !.CLK_CTRL = clk_val]
           /\ writes' = Append(writes, Log("CLK_CTRL", clk_val))
    /\ host' = [host EXCEPT !.cur_clk_rate = freq]
    /\ ret' = 0
    /\ pc' = "idle"
    /\ UNCHANGED <<event, irq, call, cmd, retry, path, sg_list, live_tables, hw, cache_inv, freq>>

(***************************************************************************)
(* sdhci_set_sdr_mode, sdhci_set_ddr_mode                                  *)
(***************************************************************************)
\* the clock control register as written back with the clock output off
ClkDisabled(clk_ctrl) == [clk_ctrl EXCEPT !.clk_en = FALSE]

\* Both functions return nothing; ret keeps what their call of
\* sdhci_clk_supply returned.
SetSdrMode ==
    /\ pc = "idle"
    /\ call' = [op |-> "set_sdr_mode", arg |-> SDHCI_CLK_100MHZ]
    /\ LET clk == ClkDisabled(regs.CLK_CTRL)
           ctrl == IF host.sdr50_support
                   THEN regs.HOST_CTRL2 \cup {"SDR50_MODE_EN"}
                   ELSE regs.HOST_CTRL2
       IN  ClkSupplyEntry(SDHCI_CLK_100MHZ,
                          [regs EXCEPT !.CLK_CTRL = clk, !.HOST_CTRL2 = ctrl],
                          <<Log("CLK_CTRL", clk), Log("HOST_CTRL2", ctrl)>>)
    /\ UNCHANGED <<event, irq, host, cmd, retry, path, sg_list, live_tables, hw, cache_inv>>

\* call.arg keeps the host as it was passed: the rate it records, and whether
\* a call of sdhci_clk_supply has programmed the clock before
SetDdrMode ==
    /\ pc = "idle"
    /\ call' = [op |-> "set_ddr_mode",
                arg |-> [rate |-> host.cur_clk_rate,
                         supplied |-> regs.CLK_CTRL.int_clk_en]]
    /\ LET clk == ClkDisabled(regs.CLK_CTRL)
           ctrl == regs.HOST_CTRL2 \cup {"DDR_MODE_EN"}
       IN  ClkSupplyEntry(host.cur_clk_rate,
                          [regs EXCEPT !.CLK_CTRL = clk, !.HOST_CTRL2 = ctrl],
                          <<Log("CLK_CTRL", clk), Log("HOST_CTRL2", ctrl)>>)
    /\ UNCHANGED <<event, irq, host, cmd, retry, path, sg_list, live_tables, hw, cache_inv>>

(***************************************************************************)
(* sdhci_set_bus_width                                                     *)
(***************************************************************************)
\* width values a caller passes
BusWidths == 0..4

\* marks the default branch of the switch
InvalidWidth == {"INVALID"}

\* the switch without its default branch
BusWidthBitsNoDefault(width) ==
    CASE width = DATA_BUS_WIDTH_8BIT -> SDHCI_BUS_WITDH_8BIT
      [] width = DATA_BUS_WIDTH_4BIT -> SDHCI_BUS_WITDH_4BIT
      [] width = DATA_BUS_WIDTH_1BIT -> SDHCI_BUS_WITDH_1BIT
      [] OTHER -> {"WIDTH_VALUE"}

\* the switch: the bit pattern of a width, InvalidWidth for the default branch
BusWidthBits(width) ==
    CASE width = DATA_BUS_WIDTH_8BIT -> SDHCI_BUS_WITDH_8BIT
      [] width = DATA_BUS_WIDTH_4BIT -> SDHCI_BUS_WITDH_4BIT
      [] width = DATA_BUS_WIDTH_1BIT -> SDHCI_BUS_WITDH_1BIT
      [] OTHER -> InvalidWidth

SetBusWidth(width) ==
    /\ pc = "idle"
    /\ call' = [op |-> "set_bus_width", arg |-> width]
    /\ LET reg == regs.HOST_CTRL1
           bits == BusWidthBits(width)
       IN  IF bits = InvalidWidth
           THEN /\ ret' = 1
                /\ writes' = <<>>
                /\ UNCHANGED regs
           ELSE /\ regs' = [regs EXCEPT !.HOST_CTRL1 = reg \cup bits]
                /\ writes' = <<Log("HOST_CTRL1", reg \cup bits)>>
                /\ ret' = 0
    /\ pc' = "idle"
    /\ UNCHANGED <<event, irq, host, cmd, retry, path, sg_list, live_tables, hw, cache_inv, freq>>

NextCfg ==
    \/ \E clk \in ClkTargets : ClkSupply(clk)
    \/ HwClkStable
    \/ ClkSupplyDone
    \/ \E width \in BusWidths : SetBusWidth(width)
    \/ SetSdrMode
    \/ SetDdrMode

SpecCfg == InitCfg /\ [][NextCfg]_vars

(***************************************************************************)
(* Properties of the clock manager and the mode configuration, SpecCfg.    *)
(***************************************************************************)
\* the divider value held in the two divider fields of the register
DividerOf(clk_ctrl) == clk_ctrl.up_bits * 256 + clk_ctrl.freq_sel

SupplyDone == pc = "idle" /\ call.op = "clk_supply" /\ ret = 0

\* the even divisors in scan range that bring the base rate down to clk
FittingDivisors(base, clk) ==
    {d \in 2..(SDHCI_CLK_MAX_DIV - 1) : d % 2 = 0 /\ base \div d <= clk}

Smallest(S) == CHOOSE d \in S : \A e \in S : d <= e

\* C7: for a target below the base rate that some even divisor in scan
\* range reaches, the divisor selected is the smallest such divisor and
\* the rate recorded is base / divisor.
C7_FirstFitDivisor ==
    (/\ SupplyDone
     /\ call.arg < host.base_clk_rate
     /\ FittingDivisors(host.base_clk_rate, call.arg) # {})
        => LET d == Smallest(FittingDivisors(host.base_clk_rate, call.arg))
           IN  /\ 2 * DividerOf(regs.CLK_CTRL) = d
               /\ host.cur_clk_rate = host.base_clk_rate \div d

\* a supply whose recorded rate lies strictly below the target, with a
\* divisor that needs the upper divider bits
C7_Witness ==
    /\ SupplyDone
    /\ call.arg < host.base_clk_rate
    /\ host.cur_clk_rate > 0
    /\ host.cur_clk_rate < call.arg
    /\ regs.CLK_CTRL.up_bits > 0

\* C8 as stated: supply at the base clock rate programs divider 1.
C8_BypassProgramsOne ==
    (SupplyDone /\ call.arg = host.base_clk_rate)
        => DividerOf(regs.CLK_CTRL) = 1

\* C8, amended: supply at the base clock rate programs the divider value 0,
\* the value div has when the scan is skipped.
C8_BypassProgramsZero ==
    (call.op = "clk_supply" /\ call.arg = host.base_clk_rate)
        => DividerOf(regs.CLK_CTRL) = 0

C8_Witness ==
    /\ SupplyDone
    /\ call.arg = host.base_clk_rate
    /\ regs.CLK_CTRL.clk_en

\* C18 as stated: the rate recorded by a successful supply is the base rate
\* when the target is the base rate, and otherwise base / d for the divisor
\* d whose encoding d / 2 is in the divider fields of the register.
C18_RecordedRateIsProgrammedRate ==
    SupplyDone =>
        host.cur_clk_rate =
            IF call.arg = host.base_clk_rate
            THEN host.base_clk_rate
            ELSE host.base_clk_rate \div (2 * DividerOf(regs.CLK_CTRL))

\* sdhci_set_ddr_mode has returned
DdrDone == pc = "idle" /\ call.op = "set_ddr_mode"

\* C15 as stated: after sdhci_set_ddr_mode returns, a rate that a successful
\* supply had recorded is the recorded rate still, the supply at the base
\* rate included.
C15_DdrKeepsRate ==
    (DdrDone /\ call.arg.supplied)
        => (ret = 0 /\ host.cur_clk_rate = call.arg.rate)

\* sdhci_set_sdr_mode has returned
SdrDone == pc = "idle" /\ call.op = "set_sdr_mode"

\* C16 as stated: after sdhci_set_sdr_mode returns the clock output is
\* enabled, whatever the base clock rate is, and the SDR50 bit is set only
\* for a host whose capabilities have SDR50.
C16_SdrClockReenabled ==
    SdrDone =>
        /\ regs.CLK_CTRL.clk_en
        /\ "SDR50_MODE_EN" \in regs.HOST_CTRL2 => host.sdr50_support

ValidWidths == {DATA_BUS_WIDTH_1BIT, DATA_BUS_WIDTH_4BIT, DATA_BUS_WIDTH_8BIT}

\* C10: a call of sdhci_set_bus_width with a width outside the enum returns
\* failure, writes no register and leaves host control register 1 as it was.
C10_InvalidWidthRejected ==
    [][(/\ pc = "idle"
        /\ pc' = "idle"
        /\ call'.op = "set_bus_width"
        /\ call'.arg \notin ValidWidths)
           => (/\ ret' = 1
               /\ writes' = <<>>
               /\ regs'.HOST_CTRL1 = regs.HOST_CTRL1)]_vars

\* an invalid width was rejected while a width bit was already selected
C10_Witness ==
    /\ pc = "idle"
    /\ call.op = "set_bus_width"
    /\ call.arg \notin ValidWidths
    /\ ret = 1
    /\ "WIDTH_4BIT" \in regs.HOST_CTRL1

(***************************************************************************)
(* sdhci_init and sdhci_int_handler                                        *)
(*                                                                         *)
(* The handler runs in interrupt context on the processor of sdhci_init:   *)
(* once entered it runs to its end before sdhci_init takes another step.   *)
(* The event lives in the frame of sdhci_init; runs of the handler after   *)
(* sdhci_init has returned are not part of this specification.             *)
(***************************************************************************)
\* runs of the handler during one sdhci_init
MaxIrq == 2

\* host control register 1 as the reset may leave it
HostCtrl1Resets ==
    {{}, {"WIDTH_4BIT"}, {"WIDTH_8BIT", "DMA_SEL_LOW"}, {"ADMA_32BIT", "HS_EN"},
     {"WIDTH_4BIT", "WIDTH_8BIT", "ADMA_32BIT"}}

\* the four interrupt sources of the power control mask register
SDCC_HC_PWR_CTRL_INT == {"BUS_ON", "BUS_OFF", "IO_SIG_LOW", "IO_SIG_HIGH"}

\* the power control mask register before sdhci_init writes it
PwrMaskResets == {{}, {"BUS_ON"}, {"IO_SIG_HIGH"}, SDCC_HC_PWR_CTRL_INT}

\* values the local ack of the handler may hold before it is assigned
UninitAck == {{}, {"STALE"}}

\* host->caps.voltage: the three voltages, or what the caller's struct held
Voltages == {"VOL_3_3", "VOL_3_0", "VOL_1_8", "VOL_UNSET"}

\* the event primitive: a single slot that a signal sets and that the wait
\* of an auto-unsignal event takes and clears
EventInit == [signalled |-> FALSE]
EventSignal(e) == [e EXCEPT !.signalled = TRUE]
EventWaitReturns(e) == e.signalled
EventWaitTake(e) == [e EXCEPT !.signalled = FALSE]

InitBoot ==
    /\ pc = "boot"
    /\ call = NoCall
    /\ ret = NoRet
    /\ writes = <<>>
    /\ host \in [base_clk_rate : {0}, cur_clk_rate : UnsetClkRates,
                 sdr50_support : {FALSE}]
    /\ \E mask \in PwrMaskResets :
         regs = [CLK_CTRL |-> ClkCtrlReset, HOST_CTRL1 |-> {}, HOST_CTRL2 |-> {},
                 RESET |-> {}, PWRCTL_MASK |-> mask]
    /\ cmd = NoCommand
    /\ retry = 0
    /\ path = "none"
    /\ sg_list = NULL
    /\ live_tables = 0
    /\ hw = NoHw
    /\ cache_inv = 0
    /\ freq = 0
    /\ event = EventInit
    /\ irq = [registered |-> FALSE, hpc |-> "none", runs |-> 0, signals |-> 0]

\* sdhci_init may take a step: it is running and no handler is
InitRuns(at) == pc = at /\ irq.hpc = "none"

\* event_init, then sdhci_reset up to its first read of the reset register
InitEnter ==
    /\ InitRuns("boot")
    /\ call' = [op |-> "init", arg |-> 0]
    /\ event' = EventInit
    /\ regs' = [regs EXCEPT !.RESET = {"SOFT_RESET"}]
    /\ writes' = <<Log("RESET", {"SOFT_RESET"})>>
    /\ pc' = "init_reset"
    /\ UNCHANGED <<ret, host, cmd, retry, path, sg_list, live_tables, hw,
                   cache_inv, freq, irq>>

\* the controller ends its reset
HwResetDone ==
    /\ regs.RESET # {}
    /\ \E ctrl1 \in HostCtrl1Resets :
         regs' = [regs EXCEPT !.RESET = {}, !.HOST_CTRL1 = ctrl1]
    /\ UNCHANGED <<pc, call, ret, writes, host, cmd, retry, path, sg_list,
                   live_tables, hw, cache_inv, freq, event, irq>>

\* the capability record with the rate recorded as the base rate
InitHostWithRate(h, base, sdr50) ==
    [h EXCEPT !.base_clk_rate = base, !.sdr50_support = sdr50,
              !.cur_clk_rate = base]

\* the fields of the host that sdhci_init assigns from the capabilities
InitHost(h, base, sdr50) ==
    [h EXCEPT !.base_clk_rate = base, !.sdr50_support = sdr50]

\* the reset register read clear; the capabilities are read and the handler
\* is registered and unmasked
InitCaps ==
    /\ InitRuns("init_reset")
    /\ regs.RESET = {}
    /\ \E base \in BaseClkRates, sdr50 \in BOOLEAN :
         host' = InitHost(host, base, sdr50)
    /\ irq' = [irq EXCEPT !.registered = TRUE]
    /\ pc' = "init_mask"
    /\ UNCHANGED <<call, ret, writes, regs, cmd, retry, path, sg_list,
                   live_tables, hw, cache_inv, freq, event>>

\* writel(SDCC_HC_PWR_CTRL_INT, SDCC_HC_PWRCTL_MASK_REG)
InitPwrMask ==
    /\ InitRuns("init_mask")
    /\ regs' = [regs EXCEPT !.PWRCTL_MASK = SDCC_HC_PWR_CTRL_INT]
    /\ writes' = Append(writes, Log("PWRCTL_MASK", SDCC_HC_PWR_CTRL_INT))
    /\ pc' = "init_power"
    /\ UNCHANGED <<call, ret, host, cmd, retry, path, sg_list, live_tables, hw,
                   cache_inv, freq, event, irq>>

\* sdhci_set_bus_power_on
InitBusPower ==
    /\ InitRuns("init_power")
    /\ \E voltage \in Voltages :
         writes' = writes \o <<Log("BUS_PWR_EN", {voltage}),
                               Log("PWR_CTRL", {voltage, "BUS_PWR_EN"})>>
    /\ pc' = "init_wait"
    /\ UNCHANGED <<call, ret, host, regs, cmd, retry, path, sg_list, live_tables,
                   hw, cache_inv, freq, event, irq>>

\* sdhci_init going on without a wait
InitWaitSkipped(e) == TRUE

\* event_wait(&sdhc_event) returns
InitWaitReturns(e) == EventWaitReturns(e)

InitEventWait ==
    /\ InitRuns("init_wait")
    /\ InitWaitReturns(event)
    /\ event' = EventWaitTake(event)
    /\ pc' = "init_width"
    /\ UNCHANGED <<call, ret, writes, host, regs, cmd, retry, path, sg_list,
                   live_tables, hw, cache_inv, freq, irq>>

\* a bit pattern of host control register 1 as the number it is
BitsAsInt(bits) ==
    (IF "WIDTH_4BIT" \in bits THEN 2 ELSE 0) + (IF "WIDTH_8BIT" \in bits THEN 32 ELSE 0)

\* sdhci_set_bus_width(host, SDHCI_BUS_WITDH_1BIT)
InitSetBusWidth ==
    /\ InitRuns("init_width")
    /\ LET reg == regs.HOST_CTRL1
           bits == BusWidthBits(BitsAsInt(SDHCI_BUS_WITDH_1BIT))
       IN  IF bits = InvalidWidth
           THEN UNCHANGED <<regs, writes>>
           ELSE /\ regs' = [regs EXCEPT !.HOST_CTRL1 = reg \cup bits]
                /\ writes' = Append(writes, Log("HOST_CTRL1", reg \cup bits))
    /\ pc' = "init_adma"
    /\ UNCHANGED <<call, ret, host, cmd, retry, path, sg_list, live_tables, hw,
                   cache_inv, freq, event, irq>>

\* the register value with the ADMA selection or-ed into what was read
AdmaModeMerged(reg) == reg \cup SDHCI_ADMA_32BIT

\* the value sdhci_set_adma_mode writes to host control register 1
AdmaModeValue(reg) == SDHCI_ADMA_32BIT

InitSetAdma ==
    /\ InitRuns("init_adma")
    /\ regs' = [regs EXCEPT !.HOST_CTRL1 = AdmaModeValue(regs.HOST_CTRL1)]
    /\ writes' = Append(writes, Log("HOST_CTRL1", AdmaModeValue(regs.HOST_CTRL1)))
    /\ pc' = "init_err"
    /\ UNCHANGED <<call, ret, host, cmd, retry, path, sg_list, live_tables, hw,
                   cache_inv, freq, event, irq>>

\* sdhci_error_status_enable, and the return of sdhci_init
InitErrEnable ==
    /\ InitRuns("init_err")
    /\ writes' = writes \o <<Log("NRML_INT_STS_EN", "ALL"), Log("ERR_INT_STS_EN", "ALL"),
                             Log("NRML_INT_SIG_EN", "ALL"), Log("ERR_INT_SIG_EN", "ALL")>>
    /\ pc' = "idle"
    /\ UNCHANGED <<call, ret, host, regs, cmd, retry, path, sg_list, live_tables,
                   hw, cache_inv, freq, event, irq>>

\* the value of ack at the writel, for the mask read and the value ack had
\* when the handler was entered
HandlerAckValue(status, stale) ==
    LET bus == IF status \cap {"BUS_ON", "BUS_OFF"} # {}
               THEN {"BUS_ON_OFF_SUCC"} ELSE stale
    IN  IF status \cap {"IO_SIG_LOW", "IO_SIG_HIGH"} # {}
        THEN bus \cup {"IO_SIG_SUCC"} ELSE bus

\* the handler from its entry to the write of the ack register
HandlerAck ==
    /\ irq.registered
    /\ irq.hpc = "none"
    /\ irq.runs < MaxIrq
    /\ call.op = "init"
    /\ pc # "idle"
    /\ \E stale \in UninitAck :
         writes' = Append(writes, Log("PWRCTL_CTL",
                                      HandlerAckValue(regs.PWRCTL_MASK, stale)))
    /\ irq' = [irq EXCEPT !.hpc = "signal", !.runs = @ + 1]
    /\ UNCHANGED <<pc, call, ret, host, regs, cmd, retry, path, sg_list,
                   live_tables, hw, cache_inv, freq, event>>

\* the handler without its event_signal
HandlerKeepsEvent(e) == e

\* event_signal((event_t *)arg, false)
HandlerSignalsEvent(e) == EventSignal(e)

\* the handler from the signal to its return
HandlerSignal ==
    /\ irq.hpc = "signal"
    /\ event' = HandlerSignalsEvent(event)
    /\ irq' = [irq EXCEPT !.hpc = "none", !.signals = @ + 1]
    /\ UNCHANGED <<pc, call, ret, writes, host, regs, cmd, retry, path, sg_list,
                   live_tables, hw, cache_inv, freq>>

InitThread ==
    \/ InitEnter
    \/ InitCaps
    \/ InitPwrMask
    \/ InitBusPower
    \/ InitEventWait
    \/ InitSetBusWidth
    \/ InitSetAdma
    \/ InitErrEnable

NextInit ==
    \/ InitThread
    \/ HwResetDone
    \/ HandlerAck
    \/ HandlerSignal

SpecInit == InitBoot /\ [][NextInit]_vars

\* sdhci_init is the running thread and takes its next step whenever no
\* handler runs; a handler that was entered runs to its return
SpecInitFair == SpecInit /\ WF_vars(InitThread) /\ WF_vars(HandlerSignal)

(***************************************************************************)
(* Properties of sdhci_init and the handler, SpecInit and SpecInitFair.    *)
(***************************************************************************)
InitDone == pc = "idle" /\ call.op = "init"

\* positions of the writes of a register in the log
WritesOf(reg) == {k \in 1..Len(writes) : writes[k][1] = reg}

\* C11: after sdhci_init has returned, host control register 1 selects the
\* 1-bit bus width and 32-bit ADMA2 together, whatever the reset left in it.
C11_WidthAndAdmaCoexist ==
    InitDone =>
        /\ regs.HOST_CTRL1 \cap {"WIDTH_4BIT", "WIDTH_8BIT"} = {}
        /\ regs.HOST_CTRL1 \cap {"DMA_SEL_LOW", "ADMA_32BIT"} = {"ADMA_32BIT"}

\* sdhci_init returned after a reset that left a wider bus width selected,
\* which the bus width write kept
C11_Witness ==
    /\ InitDone
    /\ \E k \in WritesOf("HOST_CTRL1") :
         /\ k + 1 \in WritesOf("HOST_CTRL1")
         /\ "WIDTH_4BIT" \in writes[k][2]

\* rates the divisor search can record for a base rate
AchievableRates(base) ==
    {base} \cup {base \div d : d \in {e \in 2..(SDHCI_CLK_MAX_DIV - 1) : e % 2 = 0}}

\* C12 as stated: after sdhci_init has returned the recorded clock rate is
\* at most the base rate and is a rate the divisor search can reach.
C12_InitRateAchievable ==
    InitDone =>
        /\ host.cur_clk_rate <= host.base_clk_rate
        /\ host.cur_clk_rate \in AchievableRates(host.base_clk_rate)

\* C12, amended: no step of sdhci_init assigns the recorded clock rate; after
\* the return it is the value the caller's host structure held before.
C12_InitKeepsRate ==
    [][host'.cur_clk_rate = host.cur_clk_rate]_vars

\* sdhci_init returned with the capabilities decoded and a recorded rate
\* that no divisor of the base rate gives
C12_Witness ==
    /\ InitDone
    /\ host.base_clk_rate = 200000000
    /\ host.cur_clk_rate \notin AchievableRates(host.base_clk_rate)

\* C19: once the handler has run, whether before or after sdhci_init came
\* to its event_wait, sdhci_init passes the wait and returns.
C19_NoLostWakeup == (irq.signals > 0) ~> InitDone

\* sdhci_init returned after a single run of the handler, which wrote its
\* ack before the bus power was switched on, hence before the wait
C19_Witness ==
    /\ InitDone
    /\ irq.runs = 1
    /\ \E i \in WritesOf("PWRCTL_CTL"), j \in WritesOf("PWR_CTRL") : i < j

\* registers written by the steps of sdhci_init that follow the wait
PostPowerRegs ==
    {"HOST_CTRL1", "NRML_INT_STS_EN", "ERR_INT_STS_EN", "NRML_INT_SIG_EN",
     "ERR_INT_SIG_EN"}

\* positions the step adds to the log
Added == (Len(writes) + 1)..Len(writes')

\* C20: a step of sdhci_init that writes a register of the steps after the
\* wait finds a completed run of the handler, ack written and event
\* signalled; the handler signals only after the ack write of that run; the
\* bus power is written with the handler registered and the power control
\* interrupt mask enabled.
C20_PowerHandshakeOrder ==
    [][/\ (\E k \in Added : writes'[k][1] \in PostPowerRegs)
            => (/\ irq.signals >= 1
                /\ irq.hpc = "none"
                /\ WritesOf("PWRCTL_CTL") # {})
       /\ irq'.signals > irq.signals
            => Cardinality(WritesOf("PWRCTL_CTL")) = irq'.signals
       /\ (\E k \in Added : writes'[k][1] = "PWR_CTRL")
            => (/\ irq.registered
                /\ regs.PWRCTL_MASK = SDCC_HC_PWR_CTRL_INT
                /\ WritesOf("PWRCTL_MASK") # {})]_vars

\* sdhci_init returned after two runs of the handler, the second of them
\* among the steps that follow the wait
C20_Witness ==
    /\ InitDone
    /\ irq.signals = 2
    /\ \E i \in WritesOf("HOST_CTRL1"), j \in WritesOf("PWRCTL_CTL") : i < j

\* the acknowledgment that the conditions of a mask value call for
AckFor(status) ==
    (IF status \cap {"BUS_ON", "BUS_OFF"} # {} THEN {"BUS_ON_OFF_SUCC"} ELSE {})
    \cup (IF status \cap {"IO_SIG_LOW", "IO_SIG_HIGH"} # {} THEN {"IO_SIG_SUCC"} ELSE {})

\* C21 as stated: the value the handler has written to the ack register is
\* the one its mask read calls for: the bus flag exactly with a bus
\* condition, the IO signal flag exactly with an IO signal condition, and
\* no other bit.  (Between the write and the return of the handler the mask
\* register is the value that was read.)
C21_AckDeterminedByMask ==
    irq.hpc = "signal" =>
        writes[Len(writes)] = <<"PWRCTL_CTL", AckFor(regs.PWRCTL_MASK)>>

\* bits of host control register 1 that select the bus width
WidthField == SDHCI_BUS_WITDH_4BIT \cup SDHCI_BUS_WITDH_8BIT

\* C22 as stated: after a successful sdhci_set_bus_width the width field of
\* host control register 1 holds the pattern of the width just requested and
\* nothing else, and the bits outside the field are as before the calls.
C22_LastWidthSelected ==
    (pc = "idle" /\ call.op = "set_bus_width" /\ ret = 0)
        => /\ regs.HOST_CTRL1 \cap WidthField = BusWidthBits(call.arg)
           /\ regs.HOST_CTRL1 \ WidthField = SDHCI_ADMA_32BIT

====
